---------------------------- MODULE Spec2Model ----------------------------
(***************************************************************************)
(* Model of src/streamlit_app.py: the sea-level tab of the dashboard.      *)
(*                                                                         *)
(* load_sea_level_data builds a five-column table from a literal list of   *)
(* cumulative sea levels; the script then computes three metrics, two      *)
(* chart traces, a renamed display table and a CSV export from it.  The    *)
(* framework reruns the whole script on every interaction and memoises     *)
(* load_sea_level_data through st.cache_data.                              *)
(*                                                                         *)
(* The literal list is the builder's only input.  Here it is the variable  *)
(* sea_levels, drawn in Init from the repository's list and from every     *)
(* short list over a small range of levels, so that the builder is checked *)
(* on other lengths, on single points and on decreasing levels as well.    *)
(*                                                                         *)
(* Cells are exact: an int64 cell, a float64 cell held as a reduced        *)
(* fraction, NaN, or +-inf.  The rounding of float64 is not modelled.      *)
(***************************************************************************)
EXTENDS Integers, Sequences, FiniteSets, TLC

VARIABLES sea_levels,  \* the literal list of line 69
          pc,          \* the statement the script run is about to execute
          cache,       \* the st.cache_data entry of load_sea_level_data
          frames,      \* the DataFrame objects alive in the run, by name
          display_df,  \* the object the name display_df is bound to
          metrics,     \* avg_rise, recent_5yr and the values shown by st.metric
          fig,         \* the traces added to the figure
          csv,         \* the bytes handed to st.download_button
          raised,      \* the exception that ended the run, or "none"
          runs,        \* script runs started so far
          computes,    \* executions of the body of load_sea_level_data
          prev_df      \* what load_sea_level_data returned in the previous run

vars == <<sea_levels, pc, cache, frames, display_df, metrics, fig, csv,
          raised, runs, computes, prev_df>>

-----------------------------------------------------------------------------
(* Bounds of the model. *)

MaxLen == 6

MaxLevel == 1

MaxRuns == 2

-----------------------------------------------------------------------------
(* Literals of the script. *)

BaselineYear == 1989

SpanYears == 35

RollWindow == 5

TailCount == 5

FixtureLevels ==
    << 0, 2, 4, 7, 9, 12, 14, 16, 19, 22,
       24, 27, 30, 32, 35, 38, 41, 44, 47, 50,
       53, 57, 60, 63, 67, 70, 74, 77, 81, 85,
       89, 93, 97, 101, 105, 110 >>

-----------------------------------------------------------------------------
(* Cells: int64, float64 (reduced fraction n/d, d > 0), NaN, +-inf. *)

Abs(i) == IF i < 0 THEN -i ELSE i

Sign(i) == IF i < 0 THEN -1 ELSE IF i = 0 THEN 0 ELSE 1

RECURSIVE GCD(_, _)
GCD(a, b) == IF b = 0 THEN a ELSE GCD(b, a % b)

Int64(i) == [k |-> "int", n |-> i, d |-> 1]

NaN == [k |-> "nan", n |-> 0, d |-> 1]

Inf(s) == [k |-> "inf", n |-> s, d |-> 1]

Float64(n, d) ==
    LET g == GCD(Abs(n), Abs(d))
    IN  [k |-> "float", n |-> (Sign(d) * n) \div g, d |-> Abs(d) \div g]

IsFinite(c) == c.k \in {"int", "float"}

IsNaN(c) == c.k = "nan"

Add(a, b) ==
    IF IsNaN(a) \/ IsNaN(b) THEN NaN
    ELSE IF a.k = "inf" /\ b.k = "inf" THEN (IF a.n = b.n THEN a ELSE NaN)
    ELSE IF a.k = "inf" THEN a
    ELSE IF b.k = "inf" THEN b
    ELSE Float64(a.n * b.d + b.n * a.d, a.d * b.d)

Neg(a) == IF IsFinite(a) THEN [a EXCEPT !.n = -a.n]
          ELSE IF a.k = "inf" THEN Inf(-a.n) ELSE NaN

Sub(a, b) == Add(a, Neg(b))

Mul(a, b) ==
    IF IsNaN(a) \/ IsNaN(b) THEN NaN
    ELSE IF a.k = "inf" \/ b.k = "inf"
         THEN (IF a.n = 0 \/ b.n = 0 THEN NaN ELSE Inf(Sign(a.n) * Sign(b.n)))
    ELSE Float64(a.n * b.n, a.d * b.d)

\* float64 true division: a zero divisor gives +-inf or NaN, not an exception.
Div(a, b) ==
    IF IsNaN(a) \/ IsNaN(b) THEN NaN
    ELSE IF b.k = "inf" THEN (IF a.k = "inf" THEN NaN ELSE Float64(0, 1))
    ELSE IF a.k = "inf" THEN Inf(IF b.n < 0 THEN -a.n ELSE a.n)
    ELSE IF b.n = 0 THEN (IF a.n = 0 THEN NaN ELSE Inf(Sign(a.n)))
    ELSE Float64(a.n * b.d, a.d * b.n)

-----------------------------------------------------------------------------
(* Series (sequences of cells) and the pandas operations the script uses. *)

Min(a, b) == IF a < b THEN a ELSE b

Max(a, b) == IF a > b THEN a ELSE b

\* Series.shift(1): every value moves one place down, NaN enters at the top.
Shift(s) == [i \in 1..Len(s) |-> IF i = 1 THEN NaN ELSE s[i - 1]]

\* Diff with the first difference filled with 0.0 (diff().fillna(0)).
Diff_fillna(s) ==
    [i \in 1..Len(s) |-> IF i = 1 THEN Float64(0, 1) ELSE Sub(s[i], s[i - 1])]

\* Series.diff(): s - s.shift(1), in float64.
Diff(s) == LET sh == Shift(s) IN [i \in 1..Len(s) |-> Sub(s[i], sh[i])]

\* The sum and the number of the non-NaN values of s[lo..hi].
RECURSIVE WindowSum(_, _, _)
WindowSum(s, lo, hi) ==
    IF lo > hi THEN [sum |-> Float64(0, 1), nobs |-> 0]
    ELSE LET rest == WindowSum(s, lo + 1, hi)
         IN  IF IsNaN(s[lo]) THEN rest
             ELSE [sum |-> Add(s[lo], rest.sum), nobs |-> rest.nobs + 1]

\* RollingMean with min_periods=1: a window short of observations still
\* yields the mean of those it has.
RollingMean_min_periods(s, window) ==
    LET offset == (window - 1) \div 2
        w(i)   == WindowSum(s, Max(i + offset - window + 1, 1),
                               Min(i + offset, Len(s)))
    IN  [i \in 1..Len(s) |->
            IF w(i).nobs >= 1 THEN Div(w(i).sum, Int64(w(i).nobs)) ELSE NaN]

\* Series.rolling(window, center=True).mean(): the window of label i ends
\* (window - 1) \div 2 places after i and is cut at both ends of the series;
\* min_periods defaults to window, and fewer observations give NaN.
RollingMean(s, window) ==
    LET offset == (window - 1) \div 2
        w(i)   == WindowSum(s, Max(i + offset - window + 1, 1),
                               Min(i + offset, Len(s)))
    IN  [i \in 1..Len(s) |->
            IF w(i).nobs >= window THEN Div(w(i).sum, Int64(w(i).nobs)) ELSE NaN]

\* Series.tail(count)
Tail_(s, count) == SubSeq(s, Max(Len(s) - count, 0) + 1, Len(s))

\* Mean over fillna(0): NaN counts as a zero among the values.
Mean_fillna(s) ==
    LET w == WindowSum(s, 1, Len(s))
    IN  IF Len(s) = 0 THEN NaN ELSE Div(w.sum, Int64(Len(s)))

\* Series.mean(): skipna, NaN when nothing is left.
Mean(s) ==
    LET w == WindowSum(s, 1, Len(s))
    IN  IF w.nobs = 0 THEN NaN ELSE Div(w.sum, Int64(w.nobs))

-----------------------------------------------------------------------------
(* DataFrames: the column names and, per column, its series. *)

NoFrame == [columns |-> <<>>, data |-> <<>>]

ColumnIndex(f, name) ==
    CHOOSE j \in 1..Len(f.columns) : f.columns[j] = name

HasColumn(f, name) == \E j \in 1..Len(f.columns) : f.columns[j] = name

Column(f, name) == f.data[ColumnIndex(f, name)]

NRows(f) == IF Len(f.data) = 0 THEN 0 ELSE Len(f.data[1])

\* df[name] = s
SetColumn(f, name, s) ==
    IF HasColumn(f, name)
    THEN [f EXCEPT !.data[ColumnIndex(f, name)] = s]
    ELSE [columns |-> Append(f.columns, name), data |-> Append(f.data, s)]

\* df[[names]].copy(): a new frame of the named columns, in the order named.
SelectColumns(f, names) ==
    [columns |-> names,
     data    |-> [j \in 1..Len(names) |-> Column(f, names[j])]]

\* Years one year late: range(1990, ...).
Years_late(n) == [i \in 1..n |-> BaselineYear + i]

\* list(range(1989, 2025)), one year per level
Years(n) == [i \in 1..n |-> BaselineYear + i - 1]

load_sea_level_data(levels) ==
    LET years == Years(Len(levels))
        df0 == [columns |-> <<"year", "sea_level_mm", "sea_level_cm">>,
                data    |-> << [i \in 1..Len(levels) |-> Int64(years[i])],
                               [i \in 1..Len(levels) |-> Int64(levels[i])],
                               [i \in 1..Len(levels) |-> Float64(levels[i], 10)] >>]
        df1 == SetColumn(df0, "annual_rise", Diff(Column(df0, "sea_level_mm")))
        df2 == SetColumn(df1, "5yr_avg",
                         RollingMean(Column(df1, "annual_rise"), RollWindow))
    IN  df2

-----------------------------------------------------------------------------
(* st.cache_data: the first call runs the body and stores what it returns; *)
(* a later call returns a copy of the stored frame without running it.     *)

\* cache_data over a body that keeps its list between executions: a second
\* execution sees the levels appended to those of the first.
cache_data_hidden(c, levels) ==
    IF c = NoFrame
    THEN LET df == load_sea_level_data(IF computes > 0 THEN levels \o levels
                                                        ELSE levels)
         IN  [result |-> df, cache |-> df, computed |-> 1]
    ELSE [result |-> c, cache |-> c, computed |-> 0]

cache_data(c, levels) ==
    IF c = NoFrame
    THEN LET df == load_sea_level_data(levels)
         IN  [result |-> df, cache |-> df, computed |-> 1]
    ELSE [result |-> c, cache |-> c, computed |-> 0]

-----------------------------------------------------------------------------
(* The consumers of df.  Each yields the frames as it leaves them and what *)
(* it computes.                                                            *)

Unset == [k |-> "unset", n |-> 0, d |-> 1]

NoMetrics == [total_cm |-> Unset, total_mm |-> Unset, avg_rise |-> Unset,
              recent_5yr |-> Unset, recent_pct |-> Unset]

NoCsv == [header |-> <<>>, rows |-> <<>>]

NoFrames == [df |-> NoFrame, display |-> NoFrame]

\* Series.iloc[-1]
Last(s) == s[Len(s)]

\* avg_rise = df['sea_level_mm'].iloc[-1] / 35
avg_rise(df) == Div(Last(Column(df, "sea_level_mm")), Int64(SpanYears))

\* recent_5yr = df['annual_rise'].tail(5).mean()
recent_5yr(df) == Mean(Tail_(Column(df, "annual_rise"), TailCount))

\* (recent_5yr/avg_rise-1)*100
recent_pct(recent, avg) == Mul(Sub(Div(recent, avg), Int64(1)), Int64(100))

\* go.Scatter(x=df['year'], y=df['sea_level_cm'], ...)
level_trace(fs) ==
    [frames |-> fs,
     trace  |-> [x |-> Column(fs.df, "year"), y |-> Column(fs.df, "sea_level_cm")]]

\* avg_trace scaling in place: df['5yr_avg'] /= 10, then the column as y.
avg_trace_inplace(fs) ==
    LET col    == Column(fs.df, "5yr_avg")
        scaled == [i \in 1..Len(col) |-> Div(col[i], Int64(10))]
    IN  [frames |-> [fs EXCEPT !.df = SetColumn(fs.df, "5yr_avg", scaled)],
         trace  |-> [x |-> Column(fs.df, "year"), y |-> scaled]]

\* go.Scatter(x=df['year'], y=df['5yr_avg']/10, ...): the division makes a
\* new series and leaves the column of df as it is.
avg_trace(fs) ==
    LET col == Column(fs.df, "5yr_avg")
    IN  [frames |-> fs,
         trace  |-> [x |-> Column(fs.df, "year"),
                     y |-> [i \in 1..Len(col) |-> Div(col[i], Int64(10))]]]

\* The three Korean headings of line 182, romanised.
DisplayColumns == <<"yeondo", "nujeok sangseung(cm)", "yeongan sangseung(mm)">>

\* display_df = df[['year', 'sea_level_cm', 'annual_rise']].copy(): a new
\* object, bound to display_df.
copy_for_display(fs) ==
    [frames |-> [fs EXCEPT !.display =
                    SelectColumns(fs.df, <<"year", "sea_level_cm", "annual_rise">>)],
     ref    |-> "display"]

\* display_df.columns = [...]: renames the columns of the object display_df
\* is bound to.
rename_columns(fs, ref, names) == [fs EXCEPT ![ref].columns = names]

\* to_csv writes NaN as the empty field (na_rep='').
CsvField(c) == IF IsNaN(c) THEN [k |-> "empty", n |-> 0, d |-> 1] ELSE c

\* to_csv with index=True: the row label leads every line.
to_csv_index(f) ==
    [header |-> <<"">> \o f.columns,
     rows   |-> [i \in 1..NRows(f) |->
                    <<Int64(i - 1)>> \o
                    [j \in 1..Len(f.columns) |-> CsvField(f.data[j][i])]]]

\* df.to_csv(index=False): a header of the column names, then one line per
\* row with a field per column.
to_csv(f) ==
    [header |-> f.columns,
     rows   |-> [i \in 1..NRows(f) |->
                    [j \in 1..Len(f.columns) |-> CsvField(f.data[j][i])]]]

-----------------------------------------------------------------------------
(* The tables the builder is run on. *)

RECURSIVE SeqsOfLen(_, _)
SeqsOfLen(S, n) ==
    IF n = 0 THEN {<<>>}
    ELSE {Append(s, x) : s \in SeqsOfLen(S, n - 1), x \in S}

BoundedTables == UNION {SeqsOfLen(0..MaxLevel, n) : n \in 0..MaxLen}

\* The six measurements 1989..1994 of the repository's list.
ScenarioLevels == SubSeq(FixtureLevels, 1, 6)

Tables == {FixtureLevels, ScenarioLevels} \cup BoundedTables

-----------------------------------------------------------------------------
(* The script. *)

Init ==
    /\ sea_levels \in Tables
    /\ pc = "load"
    /\ cache = NoFrame
    /\ frames = NoFrames
    /\ display_df = "none"
    /\ metrics = NoMetrics
    /\ fig = <<>>
    /\ csv = NoCsv
    /\ raised = "none"
    /\ runs = 1
    /\ computes = 0
    /\ prev_df = NoFrame

\* line 88: df = load_sea_level_data()
Load ==
    /\ pc = "load"
    /\ LET call == cache_data(cache, sea_levels)
       IN  /\ cache' = call.cache
           /\ frames' = [frames EXCEPT !.df = call.result]
           /\ computes' = computes + call.computed
    /\ pc' = "col1"
    /\ UNCHANGED <<sea_levels, display_df, metrics, fig, csv, raised, runs, prev_df>>

\* lines 93-98: iloc[-1] raises IndexError on a frame without rows.
Col1 ==
    /\ pc = "col1"
    /\ IF NRows(frames.df) = 0
       THEN /\ raised' = "IndexError"
            /\ pc' = "aborted"
            /\ UNCHANGED metrics
       ELSE /\ metrics' = [metrics EXCEPT
                              !.total_cm = Last(Column(frames.df, "sea_level_cm")),
                              !.total_mm = Last(Column(frames.df, "sea_level_mm"))]
            /\ pc' = "col2"
            /\ UNCHANGED raised
    /\ UNCHANGED <<sea_levels, cache, frames, display_df, fig, csv, runs,
                   computes, prev_df>>

\* lines 100-106
Col2 ==
    /\ pc = "col2"
    /\ metrics' = [metrics EXCEPT !.avg_rise = avg_rise(frames.df)]
    /\ pc' = "col3"
    /\ UNCHANGED <<sea_levels, cache, frames, display_df, fig, csv, raised,
                   runs, computes, prev_df>>

\* lines 108-114
Col3 ==
    /\ pc = "col3"
    /\ LET recent == recent_5yr(frames.df)
       IN  metrics' = [metrics EXCEPT
                          !.recent_5yr = recent,
                          !.recent_pct = recent_pct(recent, metrics.avg_rise)]
    /\ pc' = "trace1"
    /\ UNCHANGED <<sea_levels, cache, frames, display_df, fig, csv, raised,
                   runs, computes, prev_df>>

\* lines 124-135
Trace1 ==
    /\ pc = "trace1"
    /\ LET t == level_trace(frames)
       IN  /\ frames' = t.frames
           /\ fig' = <<t.trace>>
    /\ pc' = "trace2"
    /\ UNCHANGED <<sea_levels, cache, display_df, metrics, csv, raised, runs,
                   computes, prev_df>>

\* lines 138-146
Trace2 ==
    /\ pc = "trace2"
    /\ LET t == avg_trace(frames)
       IN  /\ frames' = t.frames
           /\ fig' = Append(fig, t.trace)
    /\ pc' = "table"
    /\ UNCHANGED <<sea_levels, cache, display_df, metrics, csv, raised, runs,
                   computes, prev_df>>

\* lines 180-183
Table ==
    /\ pc = "table"
    /\ LET c == copy_for_display(frames)
       IN  /\ display_df' = c.ref
           /\ frames' = rename_columns(c.frames, c.ref, DisplayColumns)
    /\ pc' = "csv"
    /\ UNCHANGED <<sea_levels, cache, metrics, fig, csv, raised, runs,
                   computes, prev_df>>

\* lines 527-534
Csv ==
    /\ pc = "csv"
    /\ csv' = to_csv(frames.df)
    /\ pc' = "done"
    /\ UNCHANGED <<sea_levels, cache, frames, display_df, metrics, fig, raised,
                   runs, computes, prev_df>>

\* An interaction with the page (a tab, the expander, the download button)
\* runs the script again from the top, with nothing kept but the cache.
Rerun ==
    /\ pc \in {"done", "aborted"}
    /\ runs < MaxRuns
    /\ runs' = runs + 1
    /\ prev_df' = frames.df
    /\ pc' = "load"
    /\ frames' = NoFrames
    /\ display_df' = "none"
    /\ metrics' = NoMetrics
    /\ fig' = <<>>
    /\ csv' = NoCsv
    /\ raised' = "none"
    /\ UNCHANGED <<sea_levels, cache, computes>>

\* The page's "Clear cache" command drops the st.cache_data entry.
ClearCache ==
    /\ cache # NoFrame
    /\ cache' = NoFrame
    /\ UNCHANGED <<sea_levels, pc, frames, display_df, metrics, fig, csv,
                   raised, runs, computes, prev_df>>

Next ==
    \/ Load
    \/ Col1
    \/ Col2
    \/ Col3
    \/ Trace1
    \/ Trace2
    \/ Table
    \/ Csv
    \/ Rerun
    \/ ClearCache

Spec == Init /\ [][Next]_vars

-----------------------------------------------------------------------------
(* Properties.  Indices in the statements count from 0, as the script's    *)
(* do; the sequences of the model count from 1.                            *)

df == frames.df

Built == pc # "load"

SeriesColumns == <<"year", "sea_level_mm", "sea_level_cm", "annual_rise", "5yr_avg">>

RECURSIVE DeltaSum(_, _)
DeltaSum(ar, S) ==
    IF S = {} THEN 0
    ELSE LET j == CHOOSE x \in S : TRUE
         IN  ar[j].n + DeltaSum(ar, S \ {j})

\* An integer-valued float64 cell.
IsWhole(c) == c.k = "float" /\ c.d = 1

\* C1, as claimed: in the built series of n points the moving average at
\* index i is defined if and only if 2 <= i <= n-3.
C1_DefinedFromIndex2 ==
    Built =>
        LET avg == Column(df, "5yr_avg")
            n   == Len(avg)
        IN  \A i \in 0..(n - 1) : IsFinite(avg[i + 1]) <=> (2 <= i /\ i <= n - 3)

\* C1, amended: in the built series of n points the moving average at index
\* i is defined if and only if 3 <= i <= n-3 (the window of index 2 holds the
\* undefined delta of index 0), where defined it is the arithmetic mean of
\* the five annual deltas at i-2..i+2, and at every other index it is NaN.
C1_MovingAverage ==
    Built =>
        LET avg == Column(df, "5yr_avg")
            ar  == Column(df, "annual_rise")
            n   == Len(avg)
        IN  /\ Len(ar) = n
            /\ \A i \in 0..(n - 1) :
                  IF 3 <= i /\ i <= n - 3
                  THEN /\ \A k \in (i - 2)..(i + 2) : IsWhole(ar[k + 1])
                       /\ avg[i + 1].k = "float"
                       /\ avg[i + 1].n * 5 =
                            DeltaSum(ar, (i - 1)..(i + 3)) * avg[i + 1].d
                  ELSE avg[i + 1] = NaN

\* A built series of at least six points whose moving average is a nonzero
\* number at index 3 and undefined at index 2.
C1_Witness ==
    /\ Built
    /\ NRows(df) >= 6
    /\ Column(df, "5yr_avg")[3] = NaN
    /\ IsFinite(Column(df, "5yr_avg")[4])
    /\ Column(df, "5yr_avg")[4].n # 0

\* C2: in the built series the annual delta at index 0 is NaN, never zero,
\* and at every index i >= 1 it is cumulative[i] - cumulative[i-1]; levels
\* beginning 0,2,4,7,9,12 give deltas beginning NaN,2,2,3,2,3.
C2_AnnualDelta ==
    Built =>
        LET mm == Column(df, "sea_level_mm")
            ar == Column(df, "annual_rise")
        IN  /\ Len(ar) = Len(mm)
            /\ \A i \in 0..(Len(ar) - 1) :
                  IF i = 0 THEN ar[1] = NaN
                  ELSE /\ IsWhole(ar[i + 1])
                       /\ ar[i + 1].n = mm[i + 1].n - mm[i].n
            /\ (Len(sea_levels) >= 6 /\ SubSeq(sea_levels, 1, 6) = <<0, 2, 4, 7, 9, 12>>)
                  => SubSeq(ar, 1, 6) = <<NaN, Float64(2, 1), Float64(2, 1),
                                          Float64(3, 1), Float64(2, 1), Float64(3, 1)>>

\* The series built from the six measurements 1989..1994.
C2_Witness ==
    /\ Built
    /\ sea_levels = ScenarioLevels
    /\ Len(Column(df, "annual_rise")) = 6
    /\ Column(df, "annual_rise")[6] = Float64(3, 1)

C4_RecentRate ==
    metrics.recent_pct # Unset =>
        LET ar      == Column(df, "annual_rise")
            n       == Len(ar)
            last5   == {j \in 1..n : j > n - 5}
            defined == {j \in last5 : ar[j] # NaN}
            r       == metrics.recent_5yr
            a       == metrics.avg_rise
            pct     == metrics.recent_pct
        IN  /\ \A j \in defined : IsWhole(ar[j])
            /\ IF defined = {} THEN r = NaN
               ELSE /\ r.k = "float"
                    /\ r.n * Cardinality(defined) = DeltaSum(ar, defined) * r.d
            /\ IsFinite(a)
            /\ IF IsFinite(r) /\ a.n # 0
               THEN /\ pct.k = "float"
                    /\ pct.n * (r.d * a.n) = (r.n * a.d - a.n * r.d) * 100 * pct.d
               ELSE ~IsFinite(pct)

\* A series of two to five points, whose last five entries hold the undefined
\* delta of index 0, with a nonzero recent rate and a finite percentage.
C4_Witness ==
    /\ metrics.recent_pct # Unset
    /\ NRows(df) \in 2..5
    /\ IsFinite(metrics.recent_5yr)
    /\ metrics.recent_5yr.n # 0
    /\ IsFinite(metrics.recent_pct)

Decreasing(levels) == \E i \in 2..Len(levels) : levels[i] < levels[i - 1]

C7_LengthAndOrder ==
    Built =>
        LET n == Len(sea_levels)
        IN  /\ NRows(df) = n
            /\ \A j \in 1..5 : Len(df.data[j]) = n
            /\ \A i \in 0..(n - 1) :
                  /\ Column(df, "year")[i + 1] = Int64(BaselineYear + i)
                  /\ Column(df, "sea_level_mm")[i + 1] = Int64(sea_levels[i + 1])
                  /\ Column(df, "sea_level_cm")[i + 1].k = "float"
                  /\ Column(df, "sea_level_cm")[i + 1].n * 10 =
                        sea_levels[i + 1] * Column(df, "sea_level_cm")[i + 1].d

\* The series built from the repository's 36 measurements, 2024 and 110 last.
C7_Witness ==
    /\ Built
    /\ sea_levels = FixtureLevels
    /\ NRows(df) = 36
    /\ Last(Column(df, "year")) = Int64(2024)
    /\ Last(Column(df, "sea_level_cm")) = Float64(11, 1)

\* C8, as claimed: the file offered for download has exactly the columns
\* year, sea_level_cm and annual_rise, one row per point.
C8_ThreeColumns ==
    pc = "done" =>
        /\ csv.header = <<"year", "sea_level_cm", "annual_rise">>
        /\ Len(csv.rows) = NRows(df)
        /\ \A i \in 1..Len(csv.rows) : Len(csv.rows[i]) = 3

\* C8, amended: the file offered for download has all five columns of the
\* series (year, sea_level_mm, sea_level_cm, annual_rise, 5yr_avg) and no
\* other, one row per point in series order, an undefined value being the
\* empty field.
C8_CsvColumns ==
    pc = "done" =>
        /\ csv.header = SeriesColumns
        /\ Len(csv.rows) = Len(sea_levels)
        /\ \A i \in 1..Len(csv.rows) :
              /\ Len(csv.rows[i]) = 5
              /\ csv.rows[i][1] = Int64(BaselineYear + i - 1)
              /\ csv.rows[i][2] = Int64(sea_levels[i])
              /\ \A j \in 1..5 :
                    IF df.data[j][i] = NaN
                    THEN csv.rows[i][j].k = "empty"
                    ELSE csv.rows[i][j] = df.data[j][i]

\* The export of a series of at least six points, with an empty field for
\* the first annual delta and a number for the moving average at index 3.
C8_Witness ==
    /\ pc = "done"
    /\ Len(csv.rows) >= 6
    /\ csv.rows[1][4].k = "empty"
    /\ csv.rows[4][5].k = "float"

C10_ConsumersLeaveSeries ==
    [][(pc # "load" /\ pc' # "load") => frames'.df = frames.df]_vars

\* The end of a run: both traces drawn, the display table renamed, the
\* export made, and df with its five columns under their own names.
C10_Witness ==
    /\ pc = "done"
    /\ Len(fig) = 2
    /\ display_df = "display"
    /\ frames.display.columns = DisplayColumns
    /\ csv # NoCsv
    /\ df.columns = SeriesColumns
    /\ NRows(df) >= 6
    /\ fig[2].y[4] # Column(df, "5yr_avg")[4]

=============================================================================
